---- MODULE Spec2Model ----
(***************************************************************************)
(* OrbInk annotator (src/src/main.rs): the document held by struct        *)
(* Annotator and the listeners that Annotator::render registers.          *)
(*                                                                         *)
(* Numbers.  f32 values are fixed-point integers, One units per 1.0:       *)
(* coordinates, pressures, brush sizes and widths are all in 1/One.       *)
(* Instants are integer milliseconds.                                      *)
(***************************************************************************)
EXTENDS Integers, Sequences, FiniteSets, TLC

VARIABLES
    this,      \* the Annotator
    now,       \* Instant::now(), ms
    events,    \* events delivered so far
    pressed,   \* the mouse buttons held down, where a run tracks them
    probe      \* arguments and results of the geometry functions called on
               \* their own, None in the runs of the window

vars == <<this, now, events, pressed, probe>>

-----------------------------------------------------------------------------
(* Bounds of the model *)

\* events delivered to the window in one run, passages of time included
MaxEvents == 5

\* strokes on the canvas in the runs of brush-size clicks
MaxSizeStrokes == 3

\* the longest list of points handed to the geometry functions
MaxProbePoints == 3

-----------------------------------------------------------------------------
(* Fixed-point arithmetic standing for f32 *)

\* the f32 literal 1.0
One == 1000

\* the f32 literal 0.5
Half == One \div 2

Max(x, y) == IF x >= y THEN x ELSE y

Min(x, y) == IF x <= y THEN x ELSE y

\* x * y, rounded toward zero
Mul(x, y) == IF x * y >= 0 THEN (x * y) \div One ELSE -((-(x * y)) \div One)

\* x / y for y > 0, rounded toward zero
Div(x, y) == IF x >= 0 THEN (x * One) \div y ELSE -(((-x) * One) \div y)

RECURSIVE SqrtBetween(_, _, _)
SqrtBetween(n, lo, hi) ==
    IF lo >= hi THEN lo
    ELSE LET mid == (lo + hi + 1) \div 2
         IN IF mid * mid <= n THEN SqrtBetween(n, mid, hi)
                              ELSE SqrtBetween(n, lo, mid - 1)

Abs(x) == IF x < 0 THEN -x ELSE x

\* (dx * dx + dy * dy).sqrt(): the operands are in 1/One, so the integer root
\* of the unscaled sum is the length in 1/One, rounded down; it lies between
\* the longer leg and the sum of the legs
Hypot(dx, dy) ==
    SqrtBetween(dx * dx + dy * dy, Max(Abs(dx), Abs(dy)), Abs(dx) + Abs(dy))

-----------------------------------------------------------------------------
(* Option<T> *)

None == [some |-> FALSE]

Some(v) == [some |-> TRUE, val |-> v]

-----------------------------------------------------------------------------
(* Program constants *)

DefaultBrushSize == 1000
GREEN == 65280
BLUE == 3381759
RED == 16724787
sample_interval == 16
min_sample_distance == 1500
SizeStep == 200
MinBrushSize == 200
MaxBrushSize == 5000
FullPressure == 1000
BaseWidth == 12000

Palette == {GREEN, BLUE, RED}

Buttons == {"Left", "Right", "Middle"}

-----------------------------------------------------------------------------
(* Event inputs *)

\* window positions the pointer events carry, in 1/One px
Positions == { <<100000, 100000>>, <<100500, 100000>>, <<103000, 104000>> }

\* where the pointer is when it presses a toolbar button; the root element
\* covers the toolbar too, and a right or middle press there reaches only
\* the root's listener
ButtonPos == <<100000, 100000>>

\* the time that one passage of time adds to the clock, ms
TickStep == 8

-----------------------------------------------------------------------------
(* Data model *)

StrokePoint(x, y, pressure) == [x |-> x, y |-> y, pressure |-> pressure]

Stroke(points, color, size, path) ==
    [points |-> points, color |-> color, size |-> size, path |-> path]

\* gpui::point(px(x), px(y))
point(x, y) == <<x, y>>

\* gpui::Path::new(start): no triangles yet
PathNew(start) == [start |-> start, triangles |-> <<>>]

\* gpui::Path::push_triangle
push_triangle(path, tri) == [path EXCEPT !.triangles = Append(@, tri)]

Last(s) == s[Len(s)]

new ==
    [strokes |-> <<>>,
     text |-> "OrbInk",
     brush_size |-> DefaultBrushSize,
     brush_color |-> GREEN,
     is_drawing |-> FALSE,
     last_sample_time |-> None]

-----------------------------------------------------------------------------
(* Ribbon geometry *)

\* let width in build_path_from
build_width(a, b, size) ==
    Max(Mul(Mul(Mul(a.pressure + b.pressure, Half), BaseWidth), size), One)

\* build_quad taking the width from the first point's pressure alone
build_quad_first_pressure(a, b, size) ==
    LET width == Max(Mul(Mul(a.pressure, BaseWidth), size), One)
        dx == b.x - a.x
        dy == b.y - a.y
        len == Max(Hypot(dx, dy), One)
        nx == Mul(Mul(Div(-dy, len), width), Half)
        ny == Mul(Mul(Div(dx, len), width), Half)
    IN << point(a.x - nx, a.y - ny), point(a.x + nx, a.y + ny),
          point(b.x + nx, b.y + ny), point(b.x - nx, b.y - ny) >>

\* the corners p0..p3 of the quad of segment a -> b, as build_path_from
\* computes them
build_quad(a, b, size) ==
    LET width == build_width(a, b, size)
        dx == b.x - a.x
        dy == b.y - a.y
        len == Max(Hypot(dx, dy), One)
        nx == Mul(Mul(Div(-dy, len), width), Half)
        ny == Mul(Mul(Div(dx, len), width), Half)
    IN << point(a.x - nx, a.y - ny), point(a.x + nx, a.y + ny),
          point(b.x + nx, b.y + ny), point(b.x - nx, b.y - ny) >>

\* one closed polygon per window of two points; None below two points
build_path_from(stroke) ==
    IF Len(stroke.points) < 2 THEN None
    ELSE Some([polygons |->
                 [i \in 1..(Len(stroke.points) - 1) |->
                     build_quad(stroke.points[i], stroke.points[i + 1], stroke.size)]])

\* the width of append_segment without the floor of 1.0
append_width_unfloored(a, b, size) ==
    Mul(Mul(Mul(a.pressure + b.pressure, Half), BaseWidth), size)

\* let width in append_segment
append_width(a, b, size) ==
    Max(Mul(Mul(Mul(a.pressure + b.pressure, Half), BaseWidth), size), One)

\* append_segment offsetting the corners along the segment, not across it
append_segment_along(path, a, b, size) ==
    LET width == Max(Mul(Mul(Mul(a.pressure + b.pressure, Half), BaseWidth), size), One)
        dx == b.x - a.x
        dy == b.y - a.y
        len == Max(Hypot(dx, dy), One)
        nx == Mul(Mul(Div(dx, len), width), Half)
        ny == Mul(Mul(Div(dy, len), width), Half)
        p0 == point(a.x - nx, a.y - ny)
        p1 == point(a.x + nx, a.y + ny)
        p2 == point(b.x + nx, b.y + ny)
        p3 == point(b.x - nx, b.y - ny)
    IN push_triangle(push_triangle(path, <<p0, p1, p2>>), <<p0, p2, p3>>)

\* append_segment offsetting the corners by the whole width, not by half of it
append_segment_whole_width(path, a, b, size) ==
    LET width == Max(Mul(Mul(Mul(a.pressure + b.pressure, Half), BaseWidth), size), One)
        dx == b.x - a.x
        dy == b.y - a.y
        len == Max(Hypot(dx, dy), One)
        nx == Mul(Div(-dy, len), width)
        ny == Mul(Div(dx, len), width)
        p0 == point(a.x - nx, a.y - ny)
        p1 == point(a.x + nx, a.y + ny)
        p2 == point(b.x + nx, b.y + ny)
        p3 == point(b.x - nx, b.y - ny)
    IN push_triangle(push_triangle(path, <<p0, p1, p2>>), <<p0, p2, p3>>)

append_segment(path, a, b, size) ==
    LET width == append_width(a, b, size)
        dx == b.x - a.x
        dy == b.y - a.y
        len == Max(Hypot(dx, dy), One)
        nx == Mul(Mul(Div(-dy, len), width), Half)
        ny == Mul(Mul(Div(dx, len), width), Half)
        p0 == point(a.x - nx, a.y - ny)
        p1 == point(a.x + nx, a.y + ny)
        p2 == point(b.x + nx, b.y + ny)
        p3 == point(b.x - nx, b.y - ny)
    IN push_triangle(push_triangle(path, <<p0, p1, p2>>), <<p0, p2, p3>>)

-----------------------------------------------------------------------------
(* Render: the (path, color) pairs handed to the canvas *)

\* the pairs collected newest stroke first
RECURSIVE draws_of_newest_first(_)
draws_of_newest_first(strokes) ==
    IF strokes = <<>> THEN <<>>
    ELSE LET s == Head(strokes)
         IN draws_of_newest_first(Tail(strokes))
            \o (IF s.path.some THEN << <<s.path.val, s.color>> >> ELSE <<>>)

RECURSIVE draws_of(_)
draws_of(strokes) ==
    IF strokes = <<>> THEN <<>>
    ELSE LET s == Head(strokes)
         IN (IF s.path.some THEN << <<s.path.val, s.color>> >> ELSE <<>>)
            \o draws_of(Tail(strokes))

draws(a) == draws_of(a.strokes)

-----------------------------------------------------------------------------
(* Listeners registered by Annotator::render, as functions of the Annotator *)

\* on_any_mouse_down taking the default size instead of the current brush size
on_any_mouse_down_default_size(a, pos, t) ==
    LET p == StrokePoint(pos[1], pos[2], FullPressure)
    IN [a EXCEPT !.strokes = Append(@, Stroke(<<p>>, a.brush_color, DefaultBrushSize, None)),
                 !.is_drawing = TRUE,
                 !.last_sample_time = Some(t)]

\* root element, any button
on_any_mouse_down(a, pos, t) ==
    LET p == StrokePoint(pos[1], pos[2], FullPressure)
    IN [a EXCEPT !.strokes = Append(@, Stroke(<<p>>, a.brush_color, a.brush_size, None)),
                 !.is_drawing = TRUE,
                 !.last_sample_time = Some(t)]

\* the guard of the move listener
move_is_processed(a, dragging) == a.is_drawing \/ dragging

\* should_sample with no last point to compare with on a one-point stroke
should_sample_first_free(stroke, p) ==
    IF Len(stroke.points) > 1
    THEN LET last == Last(stroke.points)
             dx == p.x - last.x
             dy == p.y - last.y
             dist2 == dx * dx + dy * dy
         IN dist2 >= min_sample_distance * min_sample_distance
    ELSE TRUE

\* dist2 >= min_sample_distance * min_sample_distance, true without a last point
should_sample(stroke, p) ==
    IF Len(stroke.points) > 0
    THEN LET last == Last(stroke.points)
             dx == p.x - last.x
             dy == p.y - last.y
             dist2 == dx * dx + dy * dy
         IN dist2 >= min_sample_distance * min_sample_distance
    ELSE TRUE

time_ok(a, t) ==
    IF a.last_sample_time.some
    THEN t - a.last_sample_time.val >= sample_interval
    ELSE TRUE

\* both gates required instead of either
sample_accepted_both(distance_ok, interval_ok) == distance_ok /\ interval_ok

\* the negation of the early return
sample_accepted(distance_ok, interval_ok) == distance_ok \/ interval_ok

\* the last stroke after stroke.points.push(p) and the geometry update
push_sample(stroke, p) ==
    LET points == Append(stroke.points, p)
        n == Len(points)
    IN IF n >= 2
       THEN LET a == points[n - 2 + 1]
                b == points[n - 1 + 1]
                path == IF stroke.path.some THEN stroke.path.val
                        ELSE PathNew(point(a.x, a.y))
            IN [stroke EXCEPT !.points = points,
                              !.path = Some(append_segment(path, a, b, stroke.size))]
       ELSE [stroke EXCEPT !.points = points]

\* on_mouse_move recording the time of every offered sample, dropped or not
on_mouse_move_stamps_offer(a, pos, dragging, t) ==
    IF ~move_is_processed(a, dragging) THEN a
    ELSE IF a.strokes = <<>> THEN a
    ELSE LET p == StrokePoint(pos[1], pos[2], FullPressure)
             stroke == Last(a.strokes)
         IN IF ~sample_accepted(should_sample(stroke, p), time_ok(a, t))
            THEN [a EXCEPT !.last_sample_time = Some(t)]
            ELSE [a EXCEPT !.last_sample_time = Some(t),
                           !.strokes[Len(a.strokes)] = push_sample(stroke, p)]

on_mouse_move(a, pos, dragging, t) ==
    IF ~move_is_processed(a, dragging) THEN a
    ELSE IF a.strokes = <<>> THEN a
    ELSE LET p == StrokePoint(pos[1], pos[2], FullPressure)
             stroke == Last(a.strokes)
         IN IF ~sample_accepted(should_sample(stroke, p), time_ok(a, t)) THEN a
            ELSE [a EXCEPT !.last_sample_time = Some(t),
                           !.strokes[Len(a.strokes)] = push_sample(stroke, p)]

\* root element, left button only
on_mouse_up(a) ==
    [a EXCEPT !.strokes = IF a.strokes = <<>> THEN a.strokes
                          ELSE [a.strokes EXCEPT ![Len(a.strokes)].points = <<>>],
              !.is_drawing = FALSE,
              !.last_sample_time = None]

clear_listener(a) == [a EXCEPT !.strokes = <<>>]

size_minus_listener(a) == [a EXCEPT !.brush_size = Max(a.brush_size - SizeStep, MinBrushSize)]

\* size+ without the cap
size_plus_listener_uncapped(a) == [a EXCEPT !.brush_size = a.brush_size + SizeStep]

size_plus_listener(a) == [a EXCEPT !.brush_size = Min(a.brush_size + SizeStep, MaxBrushSize)]

green_listener(a) == [a EXCEPT !.brush_color = GREEN]

blue_listener(a) == [a EXCEPT !.brush_color = BLUE]

red_listener(a) == [a EXCEPT !.brush_color = RED]

\* a left press on a toolbar button: the button's listener runs in the bubble
\* phase, then, propagation not being stopped, the root's on_any_mouse_down
toolbar_press(a, after_button, t) == on_any_mouse_down(after_button, ButtonPos, t)

-----------------------------------------------------------------------------
(* Events *)

Init ==
    /\ this = new
    /\ now = 0
    /\ events = 0
    /\ pressed = {}
    /\ probe = None

\* one more event is delivered
Delivered ==
    /\ events < MaxEvents
    /\ events' = events + 1
    /\ UNCHANGED <<pressed, probe>>

MouseDown(button, pos) ==
    /\ Delivered
    /\ this' = on_any_mouse_down(this, pos, now)
    /\ UNCHANGED now

\* dragging is what the event reports (e.dragging(): the left button is
\* held), whether or not the press was delivered to this window
MouseMove(pos, dragging) ==
    /\ Delivered
    /\ this' = on_mouse_move(this, pos, dragging, now)
    /\ UNCHANGED now

MouseUp(button) ==
    /\ Delivered
    /\ this' = IF button = "Left" THEN on_mouse_up(this) ELSE this
    /\ UNCHANGED now

ClearClick ==
    /\ Delivered
    /\ this' = toolbar_press(this, clear_listener(this), now)
    /\ UNCHANGED now

SizeMinusClick ==
    /\ Delivered
    /\ this' = toolbar_press(this, size_minus_listener(this), now)
    /\ UNCHANGED now

SizePlusClick ==
    /\ Delivered
    /\ this' = toolbar_press(this, size_plus_listener(this), now)
    /\ UNCHANGED now

GreenClick ==
    /\ Delivered
    /\ this' = toolbar_press(this, green_listener(this), now)
    /\ UNCHANGED now

BlueClick ==
    /\ Delivered
    /\ this' = toolbar_press(this, blue_listener(this), now)
    /\ UNCHANGED now

RedClick ==
    /\ Delivered
    /\ this' = toolbar_press(this, red_listener(this), now)
    /\ UNCHANGED now

\* time passes between two events
Tick ==
    /\ Delivered
    /\ now' = now + TickStep
    /\ UNCHANGED this

Next ==
    \/ \E button \in Buttons, pos \in Positions : MouseDown(button, pos)
    \/ \E pos \in Positions, dragging \in BOOLEAN : MouseMove(pos, dragging)
    \/ \E button \in Buttons : MouseUp(button)
    \/ ClearClick
    \/ SizeMinusClick
    \/ SizePlusClick
    \/ GreenClick
    \/ BlueClick
    \/ RedClick
    \/ Tick

Spec == Init /\ [][Next]_vars

-----------------------------------------------------------------------------
(* Runs of brush-size clicks: any number of presses on size+, size- and   *)
(* clear and of left releases, the canvas holding MaxSizeStrokes strokes   *)
(* at most                                                                 *)

PressSizePlus ==
    /\ Len(this.strokes) < MaxSizeStrokes
    /\ this' = toolbar_press(this, size_plus_listener(this), now)
    /\ UNCHANGED <<now, events, pressed, probe>>

PressSizeMinus ==
    /\ Len(this.strokes) < MaxSizeStrokes
    /\ this' = toolbar_press(this, size_minus_listener(this), now)
    /\ UNCHANGED <<now, events, pressed, probe>>

PressClear ==
    /\ this' = toolbar_press(this, clear_listener(this), now)
    /\ UNCHANGED <<now, events, pressed, probe>>

ReleaseLeft ==
    /\ this' = on_mouse_up(this)
    /\ UNCHANGED <<now, events, pressed, probe>>

NextSize ==
    \/ PressSizePlus
    \/ PressSizeMinus
    \/ PressClear
    \/ ReleaseLeft

SpecSize == Init /\ [][NextSize]_vars

-----------------------------------------------------------------------------
(* The canvas with the pointer at (100,100) or at (110,100): presses,      *)
(* moves and releases at these two positions, with time passing            *)

ScenarioPositions == { <<100 * One, 100 * One>>, <<110 * One, 100 * One>> }

NextScenario ==
    \/ \E button \in Buttons, pos \in ScenarioPositions : MouseDown(button, pos)
    \/ \E pos \in ScenarioPositions, dragging \in BOOLEAN : MouseMove(pos, dragging)
    \/ \E button \in Buttons : MouseUp(button)
    \/ Tick

SpecScenario == Init /\ [][NextScenario]_vars

-----------------------------------------------------------------------------
(* The geometry functions on their own: probe holds a list of points with  *)
(* pressures between 0.0 and 1.0 and a brush size, and what the functions  *)
(* return for them                                                         *)

ProbePressures == { 0, Half, FullPressure }

ProbeSizes == { MinBrushSize, DefaultBrushSize, MaxBrushSize }

ProbePoints ==
    { StrokePoint(pos[1], pos[2], pressure) :
          pos \in Positions, pressure \in ProbePressures }

ProbeLists ==
    UNION { [1..n -> ProbePoints] : n \in 2..MaxProbePoints }

\* the stroke a pointer-down leaves: its first point only, no path
ProbeStroke(points, size) == Stroke(<< points[1] >>, GREEN, size, None)

InitGeometry ==
    /\ this = new
    /\ now = 0
    /\ events = 0
    /\ pressed = {}
    /\ \E points \in ProbeLists, size \in ProbeSizes :
          probe = [points |-> points,
                   size |-> size,
                   widths |-> None,
                   bulk |-> None,
                   stroke |-> ProbeStroke(points, size)]

\* the width both functions compute for every window of two points
MeasureWidth ==
    /\ ~probe.widths.some
    /\ probe' = [probe EXCEPT !.widths =
                    Some([i \in 1..(Len(probe.points) - 1) |->
                            [bulk |-> build_width(probe.points[i], probe.points[i + 1],
                                                  probe.size),
                             incremental |-> append_width(probe.points[i],
                                                          probe.points[i + 1],
                                                          probe.size)]])]
    /\ UNCHANGED <<this, now, events, pressed>>

\* build_path_from on the whole list
BuildBulk ==
    /\ ~probe.bulk.some
    /\ probe' = [probe EXCEPT !.bulk =
                    Some(build_path_from(Stroke(probe.points, GREEN, probe.size, None)))]
    /\ UNCHANGED <<this, now, events, pressed>>

\* the next point of the list is accepted: pushed, and its segment appended
AcceptNext ==
    /\ Len(probe.stroke.points) < Len(probe.points)
    /\ probe' = [probe EXCEPT !.stroke =
                    push_sample(@, probe.points[Len(probe.stroke.points) + 1])]
    /\ UNCHANGED <<this, now, events, pressed>>

NextGeometry ==
    \/ MeasureWidth
    \/ BuildBulk
    \/ AcceptNext

SpecGeometry == InitGeometry /\ [][NextGeometry]_vars

-----------------------------------------------------------------------------
(* The canvas with the mouse buttons tracked: a button is pressed while it *)
(* is up and released while it is down, and a move reports dragging from   *)
(* the buttons held                                                        *)

\* what e.dragging() can report: true only while the left button is held,
\* and then surely so when it is the only button held
Dragging ==
    IF "Left" \notin pressed THEN { FALSE }
    ELSE IF pressed = { "Left" } THEN { TRUE }
    ELSE BOOLEAN

Press(button, pos) ==
    /\ button \notin pressed
    /\ events < MaxEvents
    /\ events' = events + 1
    /\ pressed' = pressed \cup { button }
    /\ this' = on_any_mouse_down(this, pos, now)
    /\ UNCHANGED <<now, probe>>

Release(button) ==
    /\ button \in pressed
    /\ events < MaxEvents
    /\ events' = events + 1
    /\ pressed' = pressed \ { button }
    /\ this' = IF button = "Left" THEN on_mouse_up(this) ELSE this
    /\ UNCHANGED <<now, probe>>

NextButtons ==
    \/ \E button \in Buttons, pos \in Positions : Press(button, pos)
    \/ \E button \in Buttons : Release(button)
    \/ \E pos \in Positions, dragging \in Dragging : MouseMove(pos, dragging)
    \/ Tick

SpecButtons == Init /\ [][NextButtons]_vars

-----------------------------------------------------------------------------
(* Vocabulary of the properties *)

Strokes == this.strokes

NumStrokes == Len(this.strokes)

ActiveStroke == Last(this.strokes)

PointAt(pos) == [x |-> pos[1], y |-> pos[2], pressure |-> FullPressure]

\* squared Euclidean distance between a recorded point and an event position
DistanceSquared(p, pos) ==
    (pos[1] - p.x) * (pos[1] - p.x) + (pos[2] - p.y) * (pos[2] - p.y)

FarEnough(p, pos) ==
    DistanceSquared(p, pos) >= min_sample_distance * min_sample_distance

IntervalElapsed ==
    now - this.last_sample_time.val >= sample_interval

\* the step appends the event's point to the last stroke
Appends(pos) ==
    /\ Len(this'.strokes) = NumStrokes
    /\ Last(this'.strokes).points = Append(ActiveStroke.points, PointAt(pos))

\* the triangles the point list of a stroke calls for: (p0,p1,p2) and
\* (p0,p2,p3) of each consecutive pair, in order
RECURSIVE TrianglesOf(_, _, _)
TrianglesOf(points, size, i) ==
    IF i >= Len(points) THEN <<>>
    ELSE LET q == build_quad(points[i], points[i + 1], size)
         IN << <<q[1], q[2], q[3]>>, <<q[1], q[3], q[4]>> >>
            \o TrianglesOf(points, size, i + 1)

\* a stroke a pointer-down has just begun: drawing, one point, no geometry
FreshStroke ==
    /\ this.is_drawing
    /\ NumStrokes > 0
    /\ Len(ActiveStroke.points) = 1
    /\ ~ActiveStroke.path.some

\* what every pointer event on the canvas leaves alone: the clock and the
\* brush
CanvasStep ==
    /\ now' = now
    /\ this'.brush_size = this.brush_size
    /\ this'.brush_color = this.brush_color

\* what every pointer-move leaves alone: the clock and the number of strokes
NoStrokeBegun ==
    /\ now' = now
    /\ Len(this'.strokes) = NumStrokes

AnyMouseMove == \E pos \in Positions, dragging \in BOOLEAN : MouseMove(pos, dragging)

-----------------------------------------------------------------------------
(* C1: a pointer-move processed while a stroke is being drawn (is_drawing, *)
(* the last stroke has a point, a last-sample-time is recorded) appends    *)
(* its point to the last stroke if and only if the point is at least       *)
(* min_sample_distance from the stroke's last point or at least            *)
(* sample_interval has passed since the last accepted sample.              *)
C1_SampleIffFarOrLate ==
    [][\A pos \in Positions, dragging \in BOOLEAN :
         ( /\ this.is_drawing
           /\ NumStrokes > 0
           /\ Len(ActiveStroke.points) >= 1
           /\ this.last_sample_time.some
           /\ NoStrokeBegun
           /\ MouseMove(pos, dragging) )
         => ( Appends(pos)
              <=> (FarEnough(Last(ActiveStroke.points), pos) \/ IntervalElapsed) )]_vars

\* a far point accepted before any time has passed: two points at least
\* min_sample_distance apart, while the clock is still at the pointer-down
C1_FarPointAcceptedEarly ==
    /\ this.is_drawing
    /\ now = 0
    /\ NumStrokes > 0
    /\ Len(ActiveStroke.points) = 2
    /\ FarEnough(ActiveStroke.points[1], <<ActiveStroke.points[2].x, ActiveStroke.points[2].y>>)

(* C2: a pointer-up leaves the points and the geometry of every stroke,    *)
(* the one it ends included, as they were; only is_drawing and the         *)
(* last-sample-time change.                                                *)
C2_PointerUpKeepsStrokes ==
    [][(\E button \in Buttons : MouseUp(button))
         => /\ this'.strokes = this.strokes
            /\ this'.brush_size = this.brush_size
            /\ this'.brush_color = this.brush_color]_vars

(* C3: in every reachable state every stroke with N >= 2 points has        *)
(* geometry, and its triangles are exactly the 2*(N-1) triangles           *)
(* (p0,p1,p2), (p0,p2,p3) of the consecutive pairs of its point list.      *)
C3_GeometryMatchesPoints ==
    \A i \in 1..NumStrokes :
        Len(Strokes[i].points) >= 2
        => /\ Strokes[i].path.some
           /\ Len(Strokes[i].path.val.triangles) = 2 * (Len(Strokes[i].points) - 1)
           /\ Strokes[i].path.val.triangles
                = TrianglesOf(Strokes[i].points, Strokes[i].size, 1)

(* C4: a pointer-move delivered while is_drawing is false, dragging or     *)
(* not, leaves every stroke and the last-sample-time unchanged.            *)
C4_MoveAfterUpChangesNothing ==
    [][(~this.is_drawing /\ AnyMouseMove)
         => /\ this'.strokes = this.strokes
            /\ this'.last_sample_time = this.last_sample_time]_vars

(* C5 as stated: the first pointer-move after a pointer-down is always     *)
(* accepted, and the new stroke then has exactly 2 points.                 *)
C5_FirstMoveAlwaysAccepted ==
    [][(FreshStroke /\ AnyMouseMove) => Len(Last(this'.strokes).points) = 2]_vars

(* C5 amended: the first pointer-move after a pointer-down is accepted,    *)
(* giving the new stroke exactly 2 points, if and only if it is at least   *)
(* min_sample_distance from the pointer-down position or arrives at least  *)
(* sample_interval after the pointer-down; otherwise the stroke keeps its  *)
(* single point.                                                           *)
C5_FirstMoveGated ==
    [][\A pos \in Positions, dragging \in BOOLEAN :
         (FreshStroke /\ NoStrokeBegun /\ MouseMove(pos, dragging))
         => LET gate == \/ FarEnough(ActiveStroke.points[1], pos)
                        \/ (this.last_sample_time.some /\ IntervalElapsed)
                after == Len(Last(this'.strokes).points)
            IN /\ gate => after = 2
               /\ ~gate => after = 1 /\ this' = this]_vars

\* a first move accepted by the time gate alone: the second point is where
\* the pointer went down
C5_FirstMoveAcceptedLate ==
    /\ this.is_drawing
    /\ NumStrokes > 0
    /\ Len(ActiveStroke.points) = 2
    /\ ActiveStroke.points[1] = ActiveStroke.points[2]
    /\ Len(ActiveStroke.path.val.triangles) = 2

(* C6: whenever is_drawing is true the stroke list is non-empty and no     *)
(* stroke in it has an empty point list.                                   *)
C6_NoEmptyPointsWhileDrawing ==
    this.is_drawing
    => /\ NumStrokes > 0
       /\ \A i \in 1..NumStrokes : Len(Strokes[i].points) > 0

(* C7: every stroke with fewer than 2 points has no geometry, and          *)
(* build_path_from gives none for it.                                      *)
C7_NoGeometryBelowTwoPoints ==
    \A i \in 1..NumStrokes :
        Len(Strokes[i].points) < 2
        => /\ build_path_from(Strokes[i]) = None
           /\ ~Strokes[i].path.some

(* C8: once a click on "clear" has been processed the stroke list is       *)
(* empty and the render produces no shape.                                 *)
C8_ClearEmptiesStrokes ==
    [][ClearClick => (this'.strokes = <<>> /\ draws(this') = <<>>)]_vars

(* C9: a pointer-down appends exactly one stroke, with the current brush   *)
(* color and size, the event position at pressure 1.0 as its only point    *)
(* and no geometry; it sets is_drawing and records the last-sample-time;   *)
(* the strokes already there are unchanged.                                *)
C9_PointerDownBeginsStroke ==
    [][\A pos \in Positions :
         (CanvasStep /\ \E button \in Buttons : MouseDown(button, pos))
         => /\ this'.strokes
                 = Append(this.strokes,
                          [points |-> << PointAt(pos) >>,
                           color |-> this.brush_color,
                           size |-> this.brush_size,
                           path |-> None])
            /\ this'.is_drawing
            /\ this'.last_sample_time = Some(now)
            /\ this'.brush_size = this.brush_size
            /\ this'.brush_color = this.brush_color]_vars

\* a pointer-down on the canvas after the brush was changed: the new stroke
\* follows an older one and carries a size other than the default
C9_StrokeBegunWithChangedBrush ==
    /\ this.is_drawing
    /\ NumStrokes >= 2
    /\ Len(ActiveStroke.points) = 1
    /\ ActiveStroke.points # << PointAt(ButtonPos) >>
    /\ ActiveStroke.size # DefaultBrushSize
    /\ ActiveStroke.size = this.brush_size

(* C10: a size click changes only brush_size, a color click only           *)
(* brush_color (to a palette color), a clear click only the stroke list.   *)
C10_ToolbarChangesOnlyItsTarget ==
    [][ /\ (SizeMinusClick \/ SizePlusClick)
           => this' = [this EXCEPT !.brush_size = this'.brush_size]
        /\ (GreenClick \/ BlueClick \/ RedClick)
           => /\ this' = [this EXCEPT !.brush_color = this'.brush_color]
              /\ this'.brush_color \in Palette
        /\ ClearClick
           => this' = [this EXCEPT !.strokes = this'.strokes] ]_vars

-----------------------------------------------------------------------------
(* C11: brush_size and the size of every stroke stay in [0.2, 5.0]; a      *)
(* size+ or size- click moves brush_size by one step of 0.2, or to the     *)
(* bound when the step would leave the range.                              *)

InSizeRange(size) == MinBrushSize <= size /\ size <= MaxBrushSize

C11_BrushSizeClamped ==
    /\ [](/\ InSizeRange(this.brush_size)
          /\ \A i \in 1..NumStrokes : InSizeRange(Strokes[i].size))
    /\ [][/\ PressSizePlus
             => this'.brush_size
                  = (IF this.brush_size + SizeStep > MaxBrushSize
                     THEN MaxBrushSize ELSE this.brush_size + SizeStep)
          /\ PressSizeMinus
             => this'.brush_size
                  = (IF this.brush_size - SizeStep < MinBrushSize
                     THEN MinBrushSize ELSE this.brush_size - SizeStep)]_vars

\* size+ pressed again at the cap: two strokes in a row begun at 5.0
C11_SizeHeldAtCap ==
    /\ this.brush_size = MaxBrushSize
    /\ NumStrokes >= 2
    /\ Strokes[NumStrokes].size = MaxBrushSize
    /\ Strokes[NumStrokes - 1].size = MaxBrushSize

-----------------------------------------------------------------------------
(* C12: a pointer-move that is not accepted changes nothing in the        *)
(* document (so the last-sample-time stays that of the last accepted       *)
(* sample); an accepted one appends exactly one point, the event's, to the *)
(* last stroke, sets the last-sample-time to the event's time and changes  *)
(* no other stroke, is_drawing or the brush.                               *)

\* the effect of an accepted move at pos
AcceptedAt(pos) ==
    /\ Appends(pos)
    /\ \A i \in 1..(NumStrokes - 1) : this'.strokes[i] = Strokes[i]
    /\ Last(this'.strokes).color = ActiveStroke.color
    /\ Last(this'.strokes).size = ActiveStroke.size
    /\ this'.last_sample_time = Some(now)
    /\ this'.is_drawing = this.is_drawing
    /\ this'.brush_size = this.brush_size
    /\ this'.brush_color = this.brush_color

C12_MoveDropsOrAppends ==
    [][\A pos \in Positions, dragging \in BOOLEAN :
         (NoStrokeBegun /\ MouseMove(pos, dragging))
         => (this' = this \/ (NumStrokes > 0 /\ AcceptedAt(pos)))]_vars

\* a sample accepted some time after the pointer-down, on the second of
\* two strokes
C12_SampleStampedLater ==
    /\ this.is_drawing
    /\ NumStrokes = 2
    /\ Len(ActiveStroke.points) = 2
    /\ now > 0
    /\ this.last_sample_time = Some(now)

-----------------------------------------------------------------------------
(* C13: the pairs a render produces are, in stroke order, one pair for    *)
(* each stroke that has geometry, made of that stroke's geometry and       *)
(* color; strokes without geometry contribute nothing.                     *)

HasGeometry(stroke) == stroke.path.some

\* the strokes with geometry, oldest first
Drawn == SelectSeq(Strokes, HasGeometry)

C13_RenderFollowsStrokes ==
    /\ Len(draws(this)) = Cardinality({i \in 1..NumStrokes : HasGeometry(Strokes[i])})
    /\ \A k \in 1..Len(Drawn) :
          /\ draws(this)[k][1] = Drawn[k].path.val
          /\ draws(this)[k][2] = Drawn[k].color

\* two strokes of different colors with geometry, and a third without
C13_TwoShapesThreeStrokes ==
    /\ NumStrokes = 3
    /\ Len(draws(this)) = 2
    /\ HasGeometry(Strokes[1])
    /\ HasGeometry(Strokes[2])
    /\ Strokes[1].color # Strokes[2].color
    /\ ~HasGeometry(Strokes[3])

-----------------------------------------------------------------------------
(* Measuring the segments of the strokes                                   *)

\* x and y agree up to the rounding of the arithmetic: two parts in One
Close(x, y) == Abs(x - y) * One <= 2 * Max(Abs(x), Abs(y))

\* the strokes whose triangles are those of their current points, two per
\* consecutive pair
Measurable(stroke) ==
    /\ Len(stroke.points) >= 2
    /\ stroke.path.some
    /\ Len(stroke.path.val.triangles) = 2 * (Len(stroke.points) - 1)

\* segment k of a stroke: its ends, its direction, and the offset (nx, ny)
\* read back from the corner p1 = a + n of its first triangle
SegmentOf(stroke, k) ==
    LET a == stroke.points[k]
        b == stroke.points[k + 1]
        p1 == stroke.path.val.triangles[2 * k - 1][2]
    IN [a |-> a, b |-> b, size |-> stroke.size,
        dx |-> b.x - a.x, dy |-> b.y - a.y,
        nx |-> p1[1] - a.x, ny |-> p1[2] - a.y]

\* max(1.0, ((a.pressure + b.pressure) / 2) * 12.0 * brush_scale)
ClaimedWidth(a, b, size) ==
    Max(One, ((((a.pressure + b.pressure) \div 2) * (BaseWidth \div One)) * size) \div One)

\* the dot product is zero up to the rounding: one part in One of the
\* product of the lengths
Perpendicular(g) ==
    Abs(g.nx * g.dx + g.ny * g.dy) <= (Hypot(g.nx, g.ny) * Hypot(g.dx, g.dy)) \div One

HalfWidthLong(g) ==
    Close(Hypot(g.nx, g.ny), ClaimedWidth(g.a, g.b, g.size) \div 2)

\* below 1 px the offset shrinks with the length
HalfWidthScaled(g) ==
    Close(Hypot(g.nx, g.ny),
          (Hypot(g.dx, g.dy) * (ClaimedWidth(g.a, g.b, g.size) \div 2)) \div One)

\* 1 px or longer
IsLong(g) == g.dx * g.dx + g.dy * g.dy >= One * One

(* C14 as stated: for every segment of a stroke, those shorter than 1 px   *)
(* and of length 0 included, the offset (nx, ny) is perpendicular to       *)
(* b - a and its magnitude is width/2.                                     *)
C14_OffsetIsHalfWidthNormal ==
    \A i \in 1..NumStrokes :
        Measurable(Strokes[i])
        => \A k \in 1..(Len(Strokes[i].points) - 1) :
             LET g == SegmentOf(Strokes[i], k)
             IN Perpendicular(g) /\ HalfWidthLong(g)

(* C14 amended: for every segment the offset (nx, ny) is perpendicular to  *)
(* b - a; its magnitude is width/2 for segments of 1 px or longer, and     *)
(* length * width/2 (less than width/2, zero for a repeated point) for     *)
(* shorter ones, the length being floored at 1.0 in the division.          *)
C14_OffsetNormalFlooredLength ==
    \A i \in 1..NumStrokes :
        Measurable(Strokes[i])
        => \A k \in 1..(Len(Strokes[i].points) - 1) :
             LET g == SegmentOf(Strokes[i], k)
             IN /\ Perpendicular(g)
                /\ IsLong(g) => HalfWidthLong(g)
                /\ ~IsLong(g) => HalfWidthScaled(g)

\* a stroke with a segment of half a pixel, let in by the time gate, and
\* then one of more than a pixel
C14_ShortThenLongSegment ==
    /\ NumStrokes > 0
    /\ Measurable(ActiveStroke)
    /\ Len(ActiveStroke.points) = 3
    /\ ~IsLong(SegmentOf(ActiveStroke, 1))
    /\ SegmentOf(ActiveStroke, 1).dx # 0
    /\ IsLong(SegmentOf(ActiveStroke, 2))

-----------------------------------------------------------------------------
(* C15 *)

\* the set of corners of the triangles of a path
CornersOf(path) ==
    { path.triangles[i][j] : i \in 1..Len(path.triangles), j \in 1..3 }

\* the document right after a pointer-down at (100,100) on the initial
\* document: one stroke of the initial brush holding that point, no path yet
ScenarioPressed ==
    /\ this.is_drawing
    /\ this.brush_size = DefaultBrushSize
    /\ Strokes = << Stroke(<< StrokePoint(100 * One, 100 * One, FullPressure) >>,
                           GREEN, DefaultBrushSize, None) >>

\* the only stroke of the document holds the points (100,100), (110,100),
\* both at full pressure
ScenarioStroke ==
    /\ NumStrokes = 1
    /\ Strokes[1].size = DefaultBrushSize
    /\ Strokes[1].points = << StrokePoint(100 * One, 100 * One, FullPressure),
                              StrokePoint(110 * One, 100 * One, FullPressure) >>

\* the stroke's path is two triangles (p0,p1,p2), (p0,p2,p3) over the
\* corners (100,106), (100,94), (110,94), (110,106), the corners at each
\* end of the segment 12.0 apart
ScenarioQuad(path) ==
    /\ path.some
    /\ LET tris == path.val.triangles
       IN /\ Len(tris) = 2
          /\ CornersOf(path.val) =
                 { point(100 * One, 106 * One), point(100 * One, 94 * One),
                   point(110 * One, 94 * One), point(110 * One, 106 * One) }
          /\ tris[1][1] = tris[2][1] /\ tris[1][3] = tris[2][2]
          /\ Cardinality({ tris[1][1], tris[1][2], tris[1][3], tris[2][3] }) = 4
          /\ Hypot(tris[1][2][1] - tris[1][1][1], tris[1][2][2] - tris[1][1][2]) = 12 * One
          /\ Hypot(tris[2][3][1] - tris[1][3][1], tris[2][3][2] - tris[1][3][2]) = 12 * One

\* C15: from the initial document, a pointer-down at (100,100) followed by
\* a pointer-move to (110,100), both at pressure 1.0, gives a stroke of
\* exactly one segment of width 12.0, stored as two triangles whose corners
\* are (100,106), (100,94), (110,94), (110,106)
C15_ScenarioQuad ==
    [][\A dragging \in BOOLEAN :
          (ScenarioPressed /\ MouseMove(<<110 * One, 100 * One>>, dragging))
              => (ScenarioStroke' /\ ScenarioQuad(Strokes[1].path)')]_vars

\* the scenario itself: the press and the move are the only two events
C15_DownThenMoveTenPixels ==
    /\ ScenarioStroke
    /\ events = 2
    /\ this.is_drawing
    /\ Len(Strokes[1].path.val.triangles) = 2

-----------------------------------------------------------------------------
(* C16 *)

\* C16: for every two points with pressures between 0.0 and 1.0, both 0
\* included, and every brush size between 0.2 and 5.0, the width that
\* build_path_from and append_segment give the segment is
\* max(1.0, ((a.pressure + b.pressure) / 2) * 12.0 * size), so at least 1.0
C16_WidthFlooredAtOne ==
    probe.widths.some =>
        \A i \in 1..(Len(probe.points) - 1) :
            LET a == probe.points[i]
                b == probe.points[i + 1]
                w == probe.widths.val[i]
            IN /\ w.bulk = ClaimedWidth(a, b, probe.size)
               /\ w.incremental = ClaimedWidth(a, b, probe.size)
               /\ w.bulk >= One
               /\ w.incremental >= One

\* at the largest brush, a segment between two points of pressure 0 is 1.0
\* wide and the next one, ending at full pressure, 30.0
C16_FlooredThenWide ==
    /\ probe.widths.some
    /\ probe.size = MaxBrushSize
    /\ Len(probe.points) >= 3
    /\ probe.points[1].pressure = 0
    /\ probe.points[2].pressure = 0
    /\ probe.points[3].pressure = FullPressure
    /\ probe.widths.val[1].incremental = One
    /\ probe.widths.val[2].incremental = 30 * One

-----------------------------------------------------------------------------
(* C17 *)

\* the points accepted so far into the incrementally built stroke
Accepted == Len(probe.stroke.points)

\* the two triangles append_segment pushed for the i-th pair are the quad
\* (p0, p1, p2, p3) build_path_from computed for it
SameQuad(i) ==
    LET quad == probe.bulk.val.val.polygons[i]
        tris == probe.stroke.path.val.triangles
    IN /\ tris[2 * i - 1] = << quad[1], quad[2], quad[3] >>
       /\ tris[2 * i] = << quad[1], quad[3], quad[4] >>

\* C17: for every list of two points or more and every brush size, the
\* quads build_path_from computes for the consecutive pairs are, pair by
\* pair, the quads the successive append_segment calls turn into triangles
\* while the same points are accepted one by one
C17_BulkMatchesIncremental ==
    (probe.bulk.some /\ Accepted >= 2) =>
        /\ probe.bulk.val.some
        /\ probe.stroke.path.some
        /\ Len(probe.bulk.val.val.polygons) = Len(probe.points) - 1
        /\ Len(probe.stroke.path.val.triangles) = 2 * (Accepted - 1)
        /\ \A i \in 1..(Accepted - 1) : SameQuad(i)

\* a list of three points of different pressures, built both ways to the end
C17_ThreePointsBothWays ==
    /\ probe.bulk.some
    /\ Len(probe.points) = 3
    /\ Accepted = 3
    /\ probe.points[1].pressure # probe.points[2].pressure
    /\ probe.points[2].pressure # probe.points[3].pressure
    /\ probe.points[1].x # probe.points[2].x
    /\ Len(probe.stroke.path.val.triangles) = 4

-----------------------------------------------------------------------------
(* C18 *)

\* C18: in every reachable state last_sample_time is present if and only
\* if is_drawing is true: pointer-down sets both, pointer-up clears both,
\* and no pointer-move or toolbar event makes one hold without the other
C18_SampleTimeIffDrawing ==
    this.last_sample_time.some <=> this.is_drawing

-----------------------------------------------------------------------------
(* C19 *)

\* C19: for every sequence of presses and releases of the left, right and
\* middle buttons, whenever every pressed button has been released again
\* is_drawing is false
C19_AllReleasedNotDrawing ==
    pressed = {} => ~this.is_drawing

====
